---- MODULE Spec2Model ----
(***************************************************************************)
(* State-machine model of the meal_max application: the meal record store  *)
(* (kitchen_model.py), the random source client (random_utils.py) and the  *)
(* battle engine (battle_model.py, whose source is absent and which is     *)
(* modelled from its description and its tests).                           *)
(***************************************************************************)
EXTENDS Integers, Sequences, FiniteSets, TLC

(* ---------- bounds ---------- *)

\* cap on the number of results recorded in the table (the battles counters
\* themselves are unbounded)
MaxResults == 2

\* cap on a row's battles counter in the tables the leaderboard is applied to
MaxBoardBattles == 3

\* longest response body handed to get_random on its own
MaxBodyLen == 3

(* ---------- input sets ---------- *)

Names == {"burger", "pizza"}

\* argument tuples handed to create_meal: two valid ones, and invalid variants
CreateArgs ==
  { [meal |-> "burger", cuisine |-> "american", price |-> 5,  difficulty |-> "LOW"],
    [meal |-> "pizza",  cuisine |-> "Italian",  price |-> 2,  difficulty |-> "MED"],
    [meal |-> "burger", cuisine |-> "american", price |-> 0,  difficulty |-> "LOW"],
    [meal |-> "pizza",  cuisine |-> "Italian",  price |-> -1, difficulty |-> "MED"],
    [meal |-> "burger", cuisine |-> "american", price |-> 5,  difficulty |-> "lalala"] }

\* ids handed to the operations that take an id
IdInputs == 1 .. Cardinality(Names)

\* sort keys handed to get_leaderboard
SortInputs == {"wins", "win_pct", "bogus"}

\* outcomes handed to update_meal_stats
ResultInputs == {"win", "loss", "draw"}

\* what the storage does with the statement of an operation: it runs it, or
\* it fails with an sqlite3.Error that is not an IntegrityError
DbInputs == {"ok", "error"}

\* the levels accepted by create_meal and by Meal.__post_init__
Difficulties == {"LOW", "MED", "HIGH"}

(* ---------- the Meal dataclass ---------- *)

Meal(id, meal, cuisine, price, difficulty) ==
  [id |-> id, meal |-> meal, cuisine |-> cuisine, price |-> price,
   difficulty |-> difficulty]

\* stands for "no Meal object" in the record of the last operation
NoMeal == Meal(0, "", "", 0, "")

\* Meal objects a caller can hand to prep_combatant: the burger as the row
\* with id 1, the pizza as the row with id 1 or 2
MealInputs ==
  { Meal(i, a.meal, a.cuisine, a.price, a.difficulty) :
      i \in IdInputs,
      a \in { c \in CreateArgs : c.price > 0 /\ c.difficulty \in Difficulties } }
    \ { Meal(2, "burger", "american", 5, "LOW") }

(* ---------- state ---------- *)

VARIABLES
  meals,       \* the meals table: id -> row
  combatants,  \* BattleModel.combatants, a list of Meal objects
  last         \* the last operation: its arguments, its error, what it returned

vars == <<meals, combatants, last>>

\* defaults of the columns that create_meal's INSERT does not name
DefaultDeleted == FALSE
DefaultBattles == 0
DefaultWins == 0

\* id the table assigns to the next inserted row
NextId(m) == Cardinality(DOMAIN m) + 1

EmptyTable == [i \in {} |-> 0]

\* the record of an operation: arguments (id, name, result, meal given or
\* returned), error ("none" on success), returned name, and for battle the
\* update_meal_stats calls it made, the roster it started from, the requests
\* sent to the random source and the draw it obtained in hundredths (-1 when
\* it obtained none).  For create and leaderboard the result field holds what
\* the storage did (DbInputs); for leaderboard the name field holds the sort
\* key and board the list returned.
Op(op, id, name, result, err, meal, ret, calls, roster, requests, draw, board) ==
  [op |-> op, id |-> id, name |-> name, result |-> result, err |-> err,
   meal |-> meal, ret |-> ret, calls |-> calls, roster |-> roster,
   requests |-> requests, draw |-> draw, board |-> board]

\* the record of an operation of the store, which involves no battle
StoreOp(op, id, name, result, err, meal) ==
  Op(op, id, name, result, err, meal, "", <<>>, <<>>, 0, -1, <<>>)

Init ==
  /\ meals = EmptyTable
  /\ combatants = <<>>
  /\ last = StoreOp("init", 0, "", "", "none", NoMeal)

(* ---------- meal record store ---------- *)

\* variant of CreateError: the price check rejects only negative prices
CreateError_AllowsZero(m, a) ==
  IF a.price < 0 THEN "invalid_price"
  ELSE IF a.difficulty \notin Difficulties THEN "invalid_difficulty"
  ELSE IF \E i \in DOMAIN m : m[i].meal = a.meal THEN "already_exists"
  ELSE "none"

\* variant of CreateError: a name already stored is accepted
CreateError_NoDuplicateCheck(m, a) ==
  IF a.price <= 0 THEN "invalid_price"
  ELSE IF a.difficulty \notin Difficulties THEN "invalid_difficulty"
  ELSE "none"

\* create_meal: the error it raises, "none" when the row is inserted
CreateError(m, a) ==
  IF a.price <= 0 THEN "invalid_price"
  ELSE IF a.difficulty \notin Difficulties THEN "invalid_difficulty"
  ELSE IF \E i \in DOMAIN m : m[i].meal = a.meal THEN "already_exists"
  ELSE "none"

\* create_meal: the error it raises when the storage may fail; the checks of
\* the arguments come before the connection is opened
CreateRaise(m, a, db) ==
  LET e == CreateError(m, a) IN
  IF e \in {"invalid_price", "invalid_difficulty"} THEN e
  ELSE IF db = "error" THEN "database_error"
  ELSE e

\* the table after create_meal's INSERT
InsertMeal(m, a) ==
  [i \in DOMAIN m \cup {NextId(m)} |->
     IF i \in DOMAIN m THEN m[i]
     ELSE [meal |-> a.meal, cuisine |-> a.cuisine, price |-> a.price,
           difficulty |-> a.difficulty, deleted |-> DefaultDeleted,
           battles |-> DefaultBattles, wins |-> DefaultWins]]

\* create_meal; the storage outcome is recorded when the storage was reached
CreateMeal(a, db) ==
  LET e == CreateRaise(meals, a, db)
      reached == e \notin {"invalid_price", "invalid_difficulty"} IN
  /\ meals' = IF e = "none" THEN InsertMeal(meals, a) ELSE meals
  /\ last' = StoreOp("create", 0, a.meal, IF reached THEN db ELSE "", e,
                     Meal(0, a.meal, a.cuisine, a.price, a.difficulty))
  /\ UNCHANGED combatants

\* clear_meals: the table is recreated empty
ClearMeals ==
  /\ meals' = EmptyTable
  /\ last' = StoreOp("resetAll", 0, "", "", "none", NoMeal)
  /\ UNCHANGED combatants

\* variant of DeleteError: the deleted flag is not looked at
DeleteError_NoDeletedCheck(m, id) ==
  IF id \notin DOMAIN m THEN "not_found" ELSE "none"

\* delete_meal: the error it raises
DeleteError(m, id) ==
  IF id \notin DOMAIN m THEN "not_found"
  ELSE IF m[id].deleted THEN "deleted"
  ELSE "none"

\* variant of MarkDeleted: the row is removed instead of being flagged
MarkDeleted_RemovesRow(m, id) == [i \in DOMAIN m \ {id} |-> m[i]]

\* the table after delete_meal's UPDATE
MarkDeleted(m, id) == [m EXCEPT ![id].deleted = TRUE]

DeleteMeal(id) ==
  LET e == DeleteError(meals, id) IN
  /\ meals' = IF e = "none" THEN MarkDeleted(meals, id) ELSE meals
  /\ last' = StoreOp("softDelete", id, "", "", e, NoMeal)
  /\ UNCHANGED combatants

\* the Meal object built from a row
RowMeal(m, i) == Meal(i, m[i].meal, m[i].cuisine, m[i].price, m[i].difficulty)

\* variant of LookupById: a soft-deleted row is returned
LookupById_NoDeletedCheck(m, id) ==
  IF id \notin DOMAIN m THEN [err |-> "not_found", meal |-> NoMeal]
  ELSE [err |-> "none", meal |-> RowMeal(m, id)]

\* get_meal_by_id: error and returned Meal
LookupById(m, id) ==
  IF id \notin DOMAIN m THEN [err |-> "not_found", meal |-> NoMeal]
  ELSE IF m[id].deleted THEN [err |-> "deleted", meal |-> NoMeal]
  ELSE [err |-> "none", meal |-> RowMeal(m, id)]

GetMealById(id) ==
  LET r == LookupById(meals, id) IN
  /\ last' = StoreOp("getById", id, "", "", r.err, r.meal)
  /\ UNCHANGED <<meals, combatants>>

\* variant of LookupByName: a soft-deleted row is returned
LookupByName_NoDeletedCheck(m, name) ==
  LET hits == { i \in DOMAIN m : m[i].meal = name } IN
  IF hits = {} THEN [err |-> "not_found", meal |-> NoMeal]
  ELSE LET i == CHOOSE j \in hits : \A k \in hits : j <= k IN
       [err |-> "none", meal |-> RowMeal(m, i)]

\* get_meal_by_name: error and returned Meal
LookupByName(m, name) ==
  LET hits == { i \in DOMAIN m : m[i].meal = name } IN
  IF hits = {} THEN [err |-> "not_found", meal |-> NoMeal]
  ELSE LET i == CHOOSE j \in hits : \A k \in hits : j <= k IN
       IF m[i].deleted THEN [err |-> "deleted", meal |-> NoMeal]
       ELSE [err |-> "none", meal |-> RowMeal(m, i)]

GetMealByName(name) ==
  LET r == LookupByName(meals, name) IN
  /\ last' = StoreOp("getByName", 0, name, "", r.err, r.meal)
  /\ UNCHANGED <<meals, combatants>>

\* variant of StatsError: the deleted flag is not looked at
StatsError_NoDeletedCheck(m, id, result) ==
  IF id \notin DOMAIN m THEN "not_found"
  ELSE IF result \notin {"win", "loss"} THEN "invalid_result"
  ELSE "none"

\* update_meal_stats: the error it raises
StatsError(m, id, result) ==
  IF id \notin DOMAIN m THEN "not_found"
  ELSE IF m[id].deleted THEN "deleted"
  ELSE IF result \notin {"win", "loss"} THEN "invalid_result"
  ELSE "none"

\* variant of UpdateStats: a loss is counted as a win too
UpdateStats_LossCountsWin(m, id, result) ==
  [m EXCEPT ![id].battles = @ + 1, ![id].wins = @ + 1]

\* variant of UpdateStats: a win leaves the battles counter alone
UpdateStats_WinSkipsBattles(m, id, result) ==
  IF result = "win"
  THEN [m EXCEPT ![id].wins = @ + 1]
  ELSE [m EXCEPT ![id].battles = @ + 1]

\* the table after update_meal_stats's UPDATE
UpdateStats(m, id, result) ==
  IF result = "win"
  THEN [m EXCEPT ![id].battles = @ + 1, ![id].wins = @ + 1]
  ELSE [m EXCEPT ![id].battles = @ + 1]

\* the table update_meal_stats leaves behind
StatsTable(m, id, result) ==
  IF StatsError(m, id, result) = "none" THEN UpdateStats(m, id, result) ELSE m

\* the results recorded in rows 1 .. n of the table
RECURSIVE SumBattles(_, _)
SumBattles(m, n) == IF n = 0 THEN 0 ELSE m[n].battles + SumBattles(m, n - 1)

WithinBounds(m) == SumBattles(m, Cardinality(DOMAIN m)) <= MaxResults

UpdateMealStats(id, result) ==
  /\ WithinBounds(StatsTable(meals, id, result))
  /\ meals' = StatsTable(meals, id, result)
  /\ last' = StoreOp("recordResult", id, "", result,
                     StatsError(meals, id, result), NoMeal)
  /\ UNCHANGED combatants

\* get_leaderboard: the error it raises; the sort key is checked before the
\* connection is opened
LeaderboardError(sort_by, db) ==
  IF sort_by \notin {"win_pct", "wins"} THEN "invalid_sort_by"
  ELSE IF db = "error" THEN "database_error"
  ELSE "none"

\* variant of Selected: the deleted flag is not looked at
Selected_IncludesDeleted(m) == { i \in DOMAIN m : m[i].battles > 0 }

\* the rows of the WHERE clause: deleted = false AND battles > 0
Selected(m) == { i \in DOMAIN m : ~m[i].deleted /\ m[i].battles > 0 }

\* variant of Before: ascending order
Before_Ascending(m, sort_by, i, j) ==
  IF sort_by = "wins"
  THEN m[i].wins <= m[j].wins
  ELSE m[i].wins * m[j].battles <= m[j].wins * m[i].battles

\* ORDER BY wins DESC / ORDER BY win_pct DESC: row i may stand before row j;
\* win_pct is wins * 1.0 / battles, compared here as a fraction
Before(m, sort_by, i, j) ==
  IF sort_by = "wins"
  THEN m[i].wins >= m[j].wins
  ELSE m[i].wins * m[j].battles >= m[j].wins * m[i].battles

\* the orders in which the query can return the selected rows; the order of
\* rows with equal keys is not fixed by the query
RowOrders(m, sort_by) ==
  LET S == Selected(m)
      n == Cardinality(S)
  IN { o \in [1 .. n -> S] :
         /\ \A k, l \in 1 .. n : o[k] = o[l] => k = l
         /\ \A k \in 1 .. n - 1 : Before(m, sort_by, o[k], o[k + 1]) }

\* round(win_pct * 100, 1), in tenths of a percent; a value half-way between
\* two tenths goes to the even one
WinPct(wins, battles) ==
  LET q == (1000 * wins) \div battles
      r == (1000 * wins) % battles
  IN IF 2 * r > battles \/ (2 * r = battles /\ q % 2 = 1) THEN q + 1 ELSE q

\* the dictionary built from a row of the result
BoardRow(m, i) ==
  [id |-> i, meal |-> m[i].meal, cuisine |-> m[i].cuisine,
   price |-> m[i].price, difficulty |-> m[i].difficulty,
   battles |-> m[i].battles, wins |-> m[i].wins,
   win_pct |-> WinPct(m[i].wins, m[i].battles)]

\* the lists get_leaderboard can return
Boards(m, sort_by) ==
  { [k \in 1 .. Len(o) |-> BoardRow(m, o[k])] : o \in RowOrders(m, sort_by) }

\* get_leaderboard; the storage outcome is recorded when the storage was
\* reached
GetLeaderboard(sort_by, db) ==
  LET e == LeaderboardError(sort_by, db)
      reached == e # "invalid_sort_by" IN
  /\ \E b \in (IF e = "none" THEN Boards(meals, sort_by) ELSE {<<>>}) :
       last' = Op("leaderboard", 0, sort_by, IF reached THEN db ELSE "", e,
                  NoMeal, "", <<>>, <<>>, 0, -1, b)
  /\ UNCHANGED <<meals, combatants>>

(* ---------- random source client ---------- *)

\* what the transport can do with get_random's one request; a response body
\* is a sequence of characters
Bodies ==
  { <<"0", ".", "1", "0", "\n">>,
    <<" ", "0", ".", "2", "6", "\n">>,
    <<"i", "n", "v", "a", "l", "i", "d">> }

Transports ==
  { [kind |-> "timeout", body |-> <<>>],
    [kind |-> "connection_error", body |-> <<>>],
    [kind |-> "http_error", body |-> <<>>] }
  \cup { [kind |-> "response", body |-> b] : b \in Bodies }

IsSpace(c) == c \in {" ", "\n", "\t", "\r"}

RECURSIVE LStrip(_)
LStrip(s) == IF s # <<>> /\ IsSpace(Head(s)) THEN LStrip(Tail(s)) ELSE s

RECURSIVE RStrip(_)
RStrip(s) ==
  IF s # <<>> /\ IsSpace(s[Len(s)]) THEN RStrip(SubSeq(s, 1, Len(s) - 1)) ELSE s

\* str.strip()
Strip(s) == RStrip(LStrip(s))

DigitVal ==
  "0" :> 0 @@ "1" :> 1 @@ "2" :> 2 @@ "3" :> 3 @@ "4" :> 4 @@
  "5" :> 5 @@ "6" :> 6 @@ "7" :> 7 @@ "8" :> 8 @@ "9" :> 9

RECURSIVE DigitsVal(_)
DigitsVal(s) ==
  IF s = <<>> THEN 0
  ELSE 10 * DigitsVal(SubSeq(s, 1, Len(s) - 1)) + DigitVal[s[Len(s)]]

\* float() of an unsigned decimal literal with at most two decimals, in
\* hundredths; ok is FALSE where float() raises ValueError
ParseFloat(s) ==
  LET dots == { i \in 1 .. Len(s) : s[i] = "." }
      wellFormed ==
        /\ \A i \in 1 .. Len(s) : s[i] = "." \/ s[i] \in DOMAIN DigitVal
        /\ Cardinality(dots) <= 1
        /\ \E i \in 1 .. Len(s) : s[i] \in DOMAIN DigitVal
      dot == IF dots = {} THEN Len(s) + 1 ELSE CHOOSE i \in dots : TRUE
      whole == SubSeq(s, 1, dot - 1)
      frac == SubSeq(s, dot + 1, Len(s))
      frac2 == IF Len(frac) = 0 THEN <<"0", "0">>
               ELSE IF Len(frac) = 1 THEN frac \o <<"0">>
               ELSE SubSeq(frac, 1, 2)
  IN IF wellFormed
     THEN [ok |-> TRUE, val |-> 100 * DigitsVal(whole) + DigitsVal(frac2)]
     ELSE [ok |-> FALSE, val |-> -1]

\* what get_random gives: the error it raises, the number it returns in
\* hundredths, the text and the cause its error message carries, and the
\* number of requests it sent
RandomResult(err, val, text, cause, requests) ==
  [err |-> err, val |-> val, text |-> text, cause |-> cause,
   requests |-> requests]

\* variant of GetRandom: the handler of RequestException comes first, so a
\* timeout is reported as a failed request
GetRandom_TimeoutAsFailure(t) ==
  IF t.kind # "response"
  THEN RandomResult("request_failed", -1, <<>>, t.kind, 1)
  ELSE LET p == ParseFloat(Strip(t.body)) IN
       IF p.ok THEN RandomResult("none", p.val, <<>>, "", 1)
       ELSE RandomResult("invalid_response", -1, Strip(t.body), "", 1)

\* variant of GetRandom: a request that timed out is sent a second time
GetRandom_RetriesTimeout(t) ==
  IF t.kind = "timeout" THEN RandomResult("timed_out", -1, <<>>, "", 2)
  ELSE IF t.kind # "response"
  THEN RandomResult("request_failed", -1, <<>>, t.kind, 1)
  ELSE LET p == ParseFloat(Strip(t.body)) IN
       IF p.ok THEN RandomResult("none", p.val, <<>>, "", 1)
       ELSE RandomResult("invalid_response", -1, Strip(t.body), "", 1)

\* get_random
GetRandom(t) ==
  IF t.kind = "timeout" THEN RandomResult("timed_out", -1, <<>>, "", 1)
  ELSE IF t.kind # "response"
  THEN RandomResult("request_failed", -1, <<>>, t.kind, 1)
  ELSE LET p == ParseFloat(Strip(t.body)) IN
       IF p.ok THEN RandomResult("none", p.val, <<>>, "", 1)
       ELSE RandomResult("invalid_response", -1, Strip(t.body), "", 1)

(* ---------- battle engine ---------- *)

\* variant of PrepError: the roster is full only beyond two entries
PrepError_OffByOne(c) == IF Len(c) > 2 THEN "roster_full" ELSE "none"

\* prep_combatant: the error it raises
PrepError(c) == IF Len(c) >= 2 THEN "roster_full" ELSE "none"

PrepCombatant(meal) ==
  LET e == PrepError(combatants) IN
  /\ combatants' = IF e = "none" THEN Append(combatants, meal) ELSE combatants
  /\ last' = StoreOp("prepare", 0, "", "", e, meal)
  /\ UNCHANGED meals

ClearCombatants ==
  /\ combatants' = <<>>
  /\ last' = StoreOp("clear", 0, "", "", "none", NoMeal)
  /\ UNCHANGED meals

GetCombatants ==
  /\ last' = StoreOp("combatants", 0, "", "", "none", NoMeal)
  /\ UNCHANGED <<meals, combatants>>

\* variant of get_battle_score: the term subtracted depends on the difficulty
get_battle_score_ByDifficulty(meal) ==
  meal.price * Len(meal.cuisine)
    - (IF meal.difficulty = "HIGH" THEN 1
       ELSE IF meal.difficulty = "MED" THEN 2 ELSE 3)

\* get_battle_score: price times the length of the cuisine string, minus 3
get_battle_score(meal) == meal.price * Len(meal.cuisine) - 3

Abs(x) == IF x < 0 THEN -x ELSE x

\* the normalized score difference of the two combatants, in hundredths
Delta(c) == Abs(get_battle_score(c[1]) - get_battle_score(c[2]))

\* variant of HigherIdx: the comparison of the two scores is inverted
HigherIdx_Inverted(c) ==
  IF get_battle_score(c[1]) <= get_battle_score(c[2]) THEN 1 ELSE 2

\* position in the roster of the higher scorer; on equal scores the first
HigherIdx(c) ==
  IF get_battle_score(c[1]) >= get_battle_score(c[2]) THEN 1 ELSE 2

\* position in the roster of the winner, given the draw in hundredths
WinnerIdx(c, draw) ==
  IF draw < Delta(c) THEN HigherIdx(c) ELSE 3 - HigherIdx(c)

\* variant of RemoveFirst: the last element is dropped, whatever x is
RemoveFirst_PopLast(c, x) == SubSeq(c, 1, Len(c) - 1)

\* list.remove: the list without the first element equal to x
RemoveFirst(c, x) ==
  LET i == CHOOSE j \in 1 .. Len(c) :
             c[j] = x /\ \A k \in 1 .. j - 1 : c[k] # x
  IN SubSeq(c, 1, i - 1) \o SubSeq(c, i + 1, Len(c))

\* variant of BattleError: one combatant is enough
BattleError_NeedsOne(c) ==
  IF Len(c) < 1 THEN "two_combatants_required" ELSE "none"

\* battle: the error its check of the roster raises
BattleError(c) == IF Len(c) < 2 THEN "two_combatants_required" ELSE "none"

\* battle: what it does to the table and the roster, and its record
BattleOutcome(m, c, t) ==
  IF BattleError(c) # "none"
  THEN [meals |-> m, combatants |-> c,
        last |-> Op("battle", 0, "", "", BattleError(c), NoMeal,
                    "", <<>>, c, 0, -1, <<>>)]
  ELSE IF Len(c) < 2
  \* indexing the second combatant of a shorter roster raises IndexError
  THEN [meals |-> m, combatants |-> c,
        last |-> Op("battle", 0, "", "", "index_error", NoMeal,
                    "", <<>>, c, 0, -1, <<>>)]
  ELSE
    LET r == GetRandom(t) IN
    IF r.err # "none"
    THEN [meals |-> m, combatants |-> c,
          last |-> Op("battle", 0, "", "", r.err, NoMeal, "", <<>>, c,
                      r.requests, -1, <<>>)]
    ELSE
      LET w == WinnerIdx(c, r.val)
          winner == c[w]
          loser == c[3 - w]
          e1 == StatsError(m, winner.id, "win")
          m1 == StatsTable(m, winner.id, "win")
          e2 == StatsError(m1, loser.id, "loss")
          m2 == StatsTable(m1, loser.id, "loss")
          call1 == <<winner.id, "win">>
          call2 == <<loser.id, "loss">>
      IN IF e1 # "none"
         THEN [meals |-> m, combatants |-> c,
               last |-> Op("battle", 0, "", "", e1, NoMeal, "", <<call1>>,
                           c, r.requests, r.val, <<>>)]
         ELSE IF e2 # "none"
         THEN [meals |-> m2, combatants |-> c,
               last |-> Op("battle", 0, "", "", e2, NoMeal, "",
                           <<call1, call2>>, c, r.requests, r.val, <<>>)]
         ELSE [meals |-> m2, combatants |-> RemoveFirst(c, loser),
               last |-> Op("battle", 0, "", "", "none", winner, winner.meal,
                           <<call1, call2>>, c, r.requests, r.val, <<>>)]

Battle(t) ==
  LET o == BattleOutcome(meals, combatants, t) IN
  /\ WithinBounds(o.meals)
  /\ meals' = o.meals
  /\ combatants' = o.combatants
  /\ last' = o.last

Next ==
  \/ \E a \in CreateArgs, db \in DbInputs : CreateMeal(a, db)
  \/ ClearMeals
  \/ \E id \in IdInputs : DeleteMeal(id)
  \/ \E sort_by \in SortInputs, db \in DbInputs : GetLeaderboard(sort_by, db)
  \/ \E id \in IdInputs : GetMealById(id)
  \/ \E n \in Names : GetMealByName(n)
  \/ \E id \in IdInputs, r \in ResultInputs : UpdateMealStats(id, r)
  \/ \E meal \in MealInputs : PrepCombatant(meal)
  \/ ClearCombatants
  \/ GetCombatants
  \/ \E t \in Transports : Battle(t)

Spec == Init /\ [][Next]_vars

(* ---------- the leaderboard applied to a table ---------- *)

\* the arguments the rows of those tables were created with, in order of id
BoardArgs ==
  << [meal |-> "burger", cuisine |-> "american", price |-> 5,  difficulty |-> "LOW"],
     [meal |-> "pizza",  cuisine |-> "Italian",  price |-> 2,  difficulty |-> "MED"],
     [meal |-> "Meal3",  cuisine |-> "Mexican",  price |-> 11, difficulty |-> "HIGH"] >>

\* what row k can have become through delete_meal and update_meal_stats
BoardRowsOf(k) ==
  { [meal |-> BoardArgs[k].meal, cuisine |-> BoardArgs[k].cuisine,
     price |-> BoardArgs[k].price, difficulty |-> BoardArgs[k].difficulty,
     deleted |-> d, battles |-> sw[1], wins |-> sw[2]] :
      d \in BOOLEAN,
      sw \in { x \in (0 .. MaxBoardBattles) \X (0 .. MaxBoardBattles) :
                x[2] <= x[1] } }

\* a table of up to three rows
LeaderboardInit ==
  /\ \E n \in 0 .. Len(BoardArgs) :
       \E r1 \in BoardRowsOf(1), r2 \in BoardRowsOf(2), r3 \in BoardRowsOf(3) :
         meals = SubSeq(<<r1, r2, r3>>, 1, n)
  /\ combatants = <<>>
  /\ last = StoreOp("init", 0, "", "", "none", NoMeal)

LeaderboardNext ==
  \E sort_by \in SortInputs, db \in DbInputs : GetLeaderboard(sort_by, db)

LeaderboardSpec == LeaderboardInit /\ [][LeaderboardNext]_vars

(* ---------- get_battle_score applied to a meal ---------- *)

\* Meal objects handed to get_battle_score
ScoreMeals ==
  { Meal(i, a.meal, a.cuisine, p, d) :
      i \in 1 .. Len(BoardArgs),
      a \in { BoardArgs[k] : k \in 1 .. Len(BoardArgs) },
      p \in {0, 1, 2, 5, 11},
      d \in Difficulties }

ScoreInit ==
  /\ meals = EmptyTable
  /\ combatants = <<>>
  /\ last = [op |-> "init", meal |-> NoMeal, score |-> 0]

GetBattleScore(meal) ==
  /\ last' = [op |-> "score", meal |-> meal, score |-> get_battle_score(meal)]
  /\ UNCHANGED <<meals, combatants>>

ScoreNext == \E meal \in ScoreMeals : GetBattleScore(meal)

ScoreSpec == ScoreInit /\ [][ScoreNext]_vars

(* ---------- get_random applied to an outcome of its request ---------- *)

RandomChars == {"0", "5", ".", " ", "\n", "x"}

RandomBodies == UNION { [1 .. n -> RandomChars] : n \in 0 .. MaxBodyLen }

RandomTransports ==
  { [kind |-> "timeout", body |-> <<>>],
    [kind |-> "connection_error", body |-> <<>>],
    [kind |-> "http_error", body |-> <<>>] }
  \cup { [kind |-> "response", body |-> b] : b \in RandomBodies }

RandomInit ==
  /\ meals = EmptyTable
  /\ combatants = <<>>
  /\ last = [op |-> "init", transport |-> [kind |-> "none", body |-> <<>>],
             out |-> RandomResult("none", -1, <<>>, "", 0)]

FetchRandom(t) ==
  /\ last' = [op |-> "fetchRandom", transport |-> t, out |-> GetRandom(t)]
  /\ UNCHANGED <<meals, combatants>>

RandomNext == \E t \in RandomTransports : FetchRandom(t)

RandomSpec == RandomInit /\ [][RandomNext]_vars

(* ---------- properties ---------- *)

\* a row's stats are those of the same row before the step
SameStats(i) ==
  /\ meals'[i].battles = meals[i].battles
  /\ meals'[i].wins = meals[i].wins

\* C1: for an existing, non-deleted meal id, recordResult(id, "win") succeeds
\* and adds exactly 1 to that meal's battles and wins, recordResult(id, "loss")
\* succeeds and adds exactly 1 to its battles and leaves its wins; no row is
\* added or removed and no other meal's battles or wins change.
C1_RecordResultCounts ==
  [][ ( /\ last'.op = "recordResult"
        /\ last'.id \in DOMAIN meals
        /\ ~meals[last'.id].deleted
        /\ last'.result \in {"win", "loss"} )
      => /\ last'.err = "none"
         /\ DOMAIN meals' = DOMAIN meals
         /\ meals'[last'.id].battles = meals[last'.id].battles + 1
         /\ meals'[last'.id].wins =
              meals[last'.id].wins + (IF last'.result = "win" THEN 1 ELSE 0)
         /\ \A j \in DOMAIN meals \ {last'.id} : SameStats(j) ]_vars

C1_Witness ==
  /\ last.op = "recordResult" /\ last.err = "none" /\ last.result = "win"
  /\ last.id \in DOMAIN meals
  /\ meals[last.id].wins = 1 /\ meals[last.id].battles = 2
  /\ Cardinality(DOMAIN meals) = 2

\* C2: recordResult signals an error and leaves the table as it was when the
\* id does not exist ("not found"), when the meal is soft-deleted ("deleted")
\* and when the outcome is neither "win" nor "loss" (a validation error when
\* the meal exists and is not deleted).
C2_RecordResultErrors ==
  [][ last'.op = "recordResult"
      => /\ last'.id \notin DOMAIN meals => last'.err = "not_found"
         /\ (last'.id \in DOMAIN meals /\ meals[last'.id].deleted)
              => last'.err = "deleted"
         /\ last'.result \notin {"win", "loss"}
              => /\ last'.err # "none"
                 /\ (last'.id \in DOMAIN meals /\ ~meals[last'.id].deleted)
                      => last'.err = "invalid_result"
         /\ last'.err # "none" => meals' = meals ]_vars

C2_Witness ==
  /\ last.op = "recordResult" /\ last.err = "deleted"
  /\ last.id \in DOMAIN meals
  /\ meals[last.id].deleted /\ meals[last.id].battles = 1

\* C3: every stored meal has battles >= 0, wins >= 0 and wins <= battles.
C3_StatsInvariant ==
  \A i \in DOMAIN meals :
    /\ meals[i].battles >= 0
    /\ meals[i].wins >= 0
    /\ meals[i].wins <= meals[i].battles

C3_Witness ==
  \E i \in DOMAIN meals :
    /\ meals[i].wins >= 1 /\ meals[i].wins < meals[i].battles
    /\ last.op = "battle" /\ last.err = "none"

\* number of calls of update_meal_stats(id, result) a battle made
CallCount(calls, id, result) ==
  Cardinality({ k \in 1 .. Len(calls) : calls[k] = <<id, result>> })

C5_WinnerRule ==
  (last.op = "battle" /\ last.err = "none")
    => LET s1 == get_battle_score(last.roster[1])
           s2 == get_battle_score(last.roster[2])
           \* draw < |s1 - s2| / 100, both sides in hundredths
           favoured == last.draw < Abs(s1 - s2)
           expected == IF s1 > s2
                       THEN (IF favoured THEN {1} ELSE {2})
                       ELSE IF s2 > s1
                       THEN (IF favoured THEN {2} ELSE {1})
                       ELSE {1, 2}
       IN /\ \E w \in expected : last.meal = last.roster[w]
          /\ last.ret = last.meal.meal

C5_Witness ==
  /\ last.op = "battle" /\ last.err = "none"
  /\ get_battle_score(last.roster[1]) < get_battle_score(last.roster[2])
  /\ last.draw = 10
  /\ last.meal = last.roster[2]

\* C6: the roster never holds more than two combatants: prepare appends the
\* meal at the end of a roster of 0 or 1 entries, and on a roster of 2 entries
\* it signals "roster full" and leaves the roster as it was.
C6_RosterBound ==
  /\ [](Len(combatants) <= 2)
  /\ [][ last'.op = "prepare"
         => IF Len(combatants) < 2
            THEN /\ last'.err = "none"
                 /\ combatants' = Append(combatants, last'.meal)
            ELSE /\ last'.err = "roster_full"
                 /\ combatants' = combatants ]_vars

C6_Witness ==
  /\ last.op = "prepare" /\ last.err = "roster_full"
  /\ Len(combatants) = 2

\* C7: battle on a roster of zero or one combatant signals "two combatants
\* required".
C7_BattleNeedsTwo ==
  [][ (last'.op = "battle" /\ Len(combatants) < 2)
      => last'.err = "two_combatants_required" ]_vars

C7_Witness ==
  /\ last.op = "battle" /\ last.err = "two_combatants_required"
  /\ Len(combatants) = 1

\* C8: softDelete signals "not found" when no row has the id and "already
\* deleted" when the row's flag is set, the table staying as it was; otherwise
\* it sets the flag of that row and changes nothing else.  The second of two
\* consecutive softDelete calls on one id fails.
C8_SoftDelete ==
  [][ last'.op = "softDelete"
      => /\ IF last'.id \notin DOMAIN meals
            THEN last'.err = "not_found" /\ meals' = meals
            ELSE IF meals[last'.id].deleted
            THEN last'.err = "deleted" /\ meals' = meals
            ELSE /\ last'.err = "none"
                 /\ meals' = [meals EXCEPT ![last'.id].deleted = TRUE]
         /\ (last.op = "softDelete" /\ last.id = last'.id)
              => last'.err \in {"not_found", "deleted"} ]_vars

C8_Witness ==
  /\ last.op = "softDelete" /\ last.err = "deleted"
  /\ last.id \in DOMAIN meals /\ meals[last.id].deleted
  /\ \E j \in DOMAIN meals : ~meals[j].deleted

\* C9: getById and getByName signal "not found" when no row matches, "deleted"
\* when the matching row is soft-deleted, and otherwise return the id, name,
\* cuisine, price and difficulty of the matching row; the table stays as it
\* was.
C9_Lookup ==
  [][ last'.op \in {"getById", "getByName"}
      => LET hits == IF last'.op = "getById"
                     THEN { i \in DOMAIN meals : i = last'.id }
                     ELSE { i \in DOMAIN meals : meals[i].meal = last'.name }
         IN /\ meals' = meals
            /\ hits = {} => last'.err = "not_found"
            /\ \A i \in hits :
                 IF meals[i].deleted
                 THEN last'.err = "deleted" /\ last'.meal = NoMeal
                 ELSE /\ last'.err = "none"
                      /\ last'.meal.id = i
                      /\ last'.meal.meal = meals[i].meal
                      /\ last'.meal.cuisine = meals[i].cuisine
                      /\ last'.meal.price = meals[i].price
                      /\ last'.meal.difficulty = meals[i].difficulty ]_vars

C9_Witness ==
  /\ last.op = "getByName" /\ last.err = "deleted" /\ last.name = "pizza"
  /\ \E i \in DOMAIN meals : meals[i].meal = "pizza" /\ meals[i].deleted

\* C10: create with price <= 0, or with a difficulty outside LOW, MED, HIGH,
\* signals a validation error and inserts no row.
C10_CreateValidation ==
  [][ ( /\ last'.op = "create"
        /\ \/ last'.meal.price <= 0
           \/ last'.meal.difficulty \notin {"LOW", "MED", "HIGH"} )
      => /\ last'.err \in {"invalid_price", "invalid_difficulty"}
         /\ meals' = meals ]_vars

C10_Witness ==
  /\ last.op = "create" /\ last.err = "invalid_price"
  /\ last.meal.price = 0
  /\ meals # EmptyTable

\* C11: meal names are unique among the stored rows; create with valid
\* arguments and a name held by a stored row, soft-deleted or not, signals
\* "already exists" and adds no row, and this error differs from the one a
\* storage failure gives.
C11_UniqueNames ==
  /\ [](\A i, j \in DOMAIN meals : meals[i].meal = meals[j].meal => i = j)
  /\ [][ ( /\ last'.op = "create"
           /\ last'.meal.price > 0
           /\ last'.meal.difficulty \in {"LOW", "MED", "HIGH"} )
         => LET held == \E i \in DOMAIN meals : meals[i].meal = last'.name IN
            /\ (held /\ last'.result = "ok")
                 => last'.err = "already_exists" /\ meals' = meals
            /\ last'.result = "error"
                 => last'.err = "database_error" /\ meals' = meals
            /\ last'.err = "already_exists" => held ]_vars

C11_Witness ==
  /\ last.op = "create" /\ last.err = "already_exists"
  /\ \E i \in DOMAIN meals : meals[i].meal = last.name /\ meals[i].deleted
  /\ Cardinality(DOMAIN meals) = 2

C13_LeaderboardOrder ==
  last.op = "leaderboard"
    => /\ (last.err = "none" /\ last.name = "wins")
            => \A k \in 1 .. Len(last.board) - 1 :
                 last.board[k].wins >= last.board[k + 1].wins
       /\ (last.err = "none" /\ last.name = "win_pct")
            => \A k \in 1 .. Len(last.board) - 1 :
                 last.board[k].wins * last.board[k + 1].battles
                   >= last.board[k + 1].wins * last.board[k].battles
       /\ last.name \notin {"wins", "win_pct"}
            => last.err = "invalid_sort_by" /\ last.board = <<>>

C13_Witness ==
  /\ last.op = "leaderboard" /\ last.err = "none" /\ last.name = "win_pct"
  /\ Len(last.board) = 3
  /\ last.board[1].wins < last.board[2].wins
  /\ last.board[1].wins * last.board[2].battles
       > last.board[2].wins * last.board[1].battles

\* C14: the score of a meal is price x length(cuisine) - 3, whatever its
\* difficulty level.
C14_ScoreFormula ==
  last.op = "score"
    => last.score = last.meal.price * Len(last.meal.cuisine) - 3

C14_Witness ==
  /\ last.op = "score"
  /\ last.meal.difficulty = "HIGH" /\ last.meal.price = 11
  /\ last.meal.cuisine = "Mexican"
  /\ last.score = 74

\* what get_random does with the outcome of its request, but for the text an
\* "invalid response" error carries, which is given by carried(body)
FetchRandomMaps(carried(_)) ==
  last.op = "fetchRandom"
    => LET t == last.transport
           o == last.out
           p == ParseFloat(Strip(t.body))
       IN /\ o.requests = 1
          /\ o.err \in {"none", "timed_out", "request_failed",
                        "invalid_response"}
          /\ o.err # "none" => o.val = -1
          /\ t.kind = "timeout" => o.err = "timed_out"
          /\ t.kind \in {"connection_error", "http_error"}
               => o.err = "request_failed" /\ o.cause = t.kind
          /\ (t.kind = "response" /\ p.ok)
               => o.err = "none" /\ o.val = p.val
          /\ (t.kind = "response" /\ ~p.ok)
               => o.err = "invalid_response" /\ o.text = carried(t.body)

WholeBody(body) == body

C16_Frame ==
  [][ /\ last'.op \notin {"recordResult", "battle", "resetAll"}
           => \A i \in DOMAIN meals : i \in DOMAIN meals' /\ SameStats(i)
      /\ last'.op = "softDelete"
           => /\ DOMAIN meals' = DOMAIN meals
              /\ \A i \in DOMAIN meals :
                   meals'[i] = [meals[i] EXCEPT !.deleted = meals'[i].deleted]
      /\ last'.op = "battle"
           => \A i \in DOMAIN meals :
                (\A k \in 1 .. Len(last'.calls) : last'.calls[k][1] # i)
                  => i \in DOMAIN meals' /\ SameStats(i)
      /\ last'.op # "resetAll"
           => \A i \in DOMAIN meals :
                /\ i \in DOMAIN meals'
                /\ meals'[i].meal = meals[i].meal
                /\ meals'[i].cuisine = meals[i].cuisine
                /\ meals'[i].price = meals[i].price
                /\ meals'[i].difficulty = meals[i].difficulty ]_vars

C16_Witness ==
  /\ last.op = "softDelete" /\ last.err = "none"
  /\ last.id \in DOMAIN meals
  /\ meals[last.id].deleted
  /\ meals[last.id].battles = 2 /\ meals[last.id].wins = 1

\* C17: a battle sends at most one request to the random source; when that
\* request times out or fails the battle ends with that error after the one
\* request, having recorded no result and with the roster as it was.
C17_SingleRequest ==
  last.op = "battle"
    => /\ last.requests <= 1
       /\ last.err \in {"timed_out", "request_failed"}
            => /\ last.requests = 1
               /\ last.calls = <<>>
               /\ combatants = last.roster
               /\ last.ret = ""

C17_Witness ==
  /\ last.op = "battle" /\ last.err = "timed_out"
  /\ Len(last.roster) = 2 /\ last.requests = 1

\* C18: whenever battle signals an error, the roster and every stored meal's
\* battles and wins are as they were before the call.
C18_BattleAllOrNothing ==
  [][ (last'.op = "battle" /\ last'.err # "none")
      => /\ combatants' = combatants
         /\ meals' = meals ]_vars

\* C19: a deleted flag that is set stays set until the next resetAll, and
\* until then getById, getByName and recordResult for that meal signal
\* "deleted", softDelete signals "already deleted", and the meal is in no
\* leaderboard.
C19_DeletedUntilReset ==
  [][ \A i \in DOMAIN meals :
        (meals[i].deleted /\ last'.op # "resetAll")
          => /\ i \in DOMAIN meals' /\ meals'[i].deleted
             /\ (last'.op \in {"getById", "recordResult", "softDelete"}
                   /\ last'.id = i)
                  => last'.err = "deleted"
             /\ (last'.op = "getByName" /\ last'.name = meals[i].meal)
                  => last'.err = "deleted"
             /\ last'.op = "leaderboard"
                  => \A k \in 1 .. Len(last'.board) : last'.board[k].id # i
    ]_vars

C19_Witness ==
  /\ last.op = "leaderboard" /\ last.err = "none"
  /\ Len(last.board) = 1
  /\ \E i \in DOMAIN meals : meals[i].deleted /\ meals[i].battles > 0

====
